---- MODULE Spec2Model ----
(***************************************************************************)
(* Model of pkg/mutation/assign_mutator.go: the Assign mutator record      *)
(* (AssignMutator), its constructor MutatorForAssign, its methods, and the *)
(* validator IsValidAssign with its three rule functions.                  *)
(*                                                                         *)
(* Go values are represented as follows.                                   *)
(*   - a parser.Node is a record, tagged by "type" (ObjectNode/ListNode);  *)
(*     List.KeyValue is a *string: <<>> is nil, <<s>> points to s;         *)
(*   - a decoded JSON value (interface{}) is a record tagged by "k";       *)
(*   - raw payload bytes are either undecodable or the text of a JSON      *)
(*     value; json.Unmarshal/unmarshalValue decode them;                   *)
(*   - pointers and slices are addresses into explicit heaps, so that      *)
(*     aliasing between a record and its copy is visible.                  *)
(***************************************************************************)
EXTENDS Integers, Sequences, FiniteSets, TLC

(***************************************************************************)
(* Bounds                                                                  *)
(***************************************************************************)
MaxPathLen == 3

(***************************************************************************)
(* parser.Node values                                                      *)
(***************************************************************************)
ObjectNode == "Object"
ListNode == "List"

NilStr == <<>>

Ptr(s) == <<s>>

Object(ref) == [type |-> ObjectNode, Reference |-> ref]

List(keyField, keyValue, glob) ==
  [type |-> ListNode, KeyField |-> keyField, KeyValue |-> keyValue, Glob |-> glob]

FieldNames == {"metadata", "containers", "name"}
KeyFields == {"name", "id"}
KeyValues == {"a", "b"}

ObjectNodes == {Object(r) : r \in FieldNames}

ListNodes ==
  {List(k, NilStr, g) : k \in KeyFields, g \in BOOLEAN}
    \cup {List(k, Ptr(v), FALSE) : k \in KeyFields, v \in KeyValues}

Nodes == ObjectNodes \cup ListNodes

SeqsUpTo(S, n) == UNION {[1..i -> S] : i \in 0..n}

Paths == SeqsUpTo(Nodes, MaxPathLen)

(***************************************************************************)
(* Decoded JSON values (Go interface{}) and raw payloads                   *)
(***************************************************************************)
JNull == [k |-> "null"]
JStr(s) == [k |-> "str", s |-> s]
JNum(n) == [k |-> "num", n |-> n]
JList(e) == [k |-> "list", e |-> e]
JMap(f) == [k |-> "map", f |-> f]

EmptyMap == [x \in {} |-> JNull]

\* valueMap[key] of a Go map[string]interface{}: a missing key yields nil
MapIndex(f, key) == IF key \in DOMAIN f THEN f[key] ELSE JNull

\* string == interface{} in Go: equal only to a string of the same content
StrEqIface(s, v) == v.k = "str" /\ v.s = s

ElemValues ==
  {JMap(EmptyMap), JMap("name" :> JStr("a")), JMap("name" :> JStr("b")),
   JMap("name" :> JNum(1)), JMap("id" :> JStr("a")),
   JMap("name" :> JStr("a") @@ "image" :> JStr("b"))}

AssignValues == {JNull, JStr("a"), JList(<<>>)} \cup ElemValues

Garbage == [k |-> "garbage"]

Raws ==
  {Garbage, JNull, JStr("a"), JMap(EmptyMap)}
    \cup {JMap("value" :> v) : v \in AssignValues}

NoErr == "nil"

\* json.Unmarshal(raw, &toAssign) with toAssign a map[string]interface{}
Unmarshal(raw) ==
  CASE raw.k = "garbage" -> [err |-> "invalid character", m |-> EmptyMap]
    [] raw.k = "null" -> [err |-> NoErr, m |-> EmptyMap]
    [] raw.k = "map" -> [err |-> NoErr, m |-> raw.f]
    [] OTHER -> [err |-> "cannot unmarshal into map", m |-> EmptyMap]

(***************************************************************************)
(* The validator rules                                                     *)
(***************************************************************************)
hasMetadataRoot_LastNode(path) ==
  IF Len(path) = 0 THEN FALSE
  ELSE path[Len(path)] = Object("metadata")

hasMetadataRoot(path) ==
  IF Len(path) = 0 THEN FALSE
  ELSE path[1] = Object("metadata")

checkKeyNotChanged_KeyValue(p) ==
  IF Len(p) = 0 THEN "empty path"
  ELSE IF Len(p) < 2 THEN NoErr
  ELSE LET lastNode == p[Len(p)]
           secondLastNode == p[Len(p) - 1]
       IN IF secondLastNode.type # ListNode THEN NoErr
          ELSE IF lastNode.type # ObjectNode
            THEN "invalid path format: child of a list can't be a list"
          ELSE IF Ptr(lastNode.Reference) = secondLastNode.KeyValue
            THEN "invalid path format: changing the item key is not allowed"
          ELSE NoErr

checkKeyNotChanged(p) ==
  IF Len(p) = 0 THEN "empty path"
  ELSE IF Len(p) < 2 THEN NoErr
  ELSE LET lastNode == p[Len(p)]
           secondLastNode == p[Len(p) - 1]
       IN IF secondLastNode.type # ListNode THEN NoErr
          ELSE IF lastNode.type # ObjectNode
            THEN "invalid path format: child of a list can't be a list"
          ELSE IF lastNode.Reference = secondLastNode.KeyField
            THEN "invalid path format: changing the item key is not allowed"
          ELSE NoErr

validateObjectAssignedToList_NoMapCheck(p, value) ==
  IF Len(p) = 0 THEN "empty path"
  ELSE LET listNode == p[Len(p)]
       IN IF listNode.type # ListNode THEN NoErr
          ELSE IF listNode.Glob THEN "can't append to a globbed list"
          ELSE IF listNode.KeyValue = NilStr
            THEN "invalid key value for a non globbed object"
          ELSE IF value.k # "map" THEN NoErr
          ELSE IF ~StrEqIface(listNode.KeyValue[1], MapIndex(value.f, listNode.KeyField))
            THEN "adding object to list with different key"
          ELSE NoErr

validateObjectAssignedToList_NoKeyCompare(p, value) ==
  IF Len(p) = 0 THEN "empty path"
  ELSE LET listNode == p[Len(p)]
       IN IF listNode.type # ListNode THEN NoErr
          ELSE IF listNode.Glob THEN "can't append to a globbed list"
          ELSE IF listNode.KeyValue = NilStr
            THEN "invalid key value for a non globbed object"
          ELSE IF value.k # "map"
            THEN "only full objects can be appended to lists"
          ELSE NoErr

validateObjectAssignedToList(p, value) ==
  IF Len(p) = 0 THEN "empty path"
  ELSE LET listNode == p[Len(p)]
       IN IF listNode.type # ListNode THEN NoErr
          ELSE IF listNode.Glob THEN "can't append to a globbed list"
          ELSE IF listNode.KeyValue = NilStr
            THEN "invalid key value for a non globbed object"
          ELSE IF value.k # "map"
            THEN "only full objects can be appended to lists"
          ELSE IF ~StrEqIface(listNode.KeyValue[1], MapIndex(value.f, listNode.KeyField))
            THEN "adding object to list with different key"
          ELSE NoErr

\* IsValidAssign from the parsed path on; "decoded" tells whether the payload
\* bytes were handed to json.Unmarshal before the verdict.
validate(path, raw) ==
  IF hasMetadataRoot(path)
    THEN [err |-> "assign can't change metadata", decoded |-> FALSE]
  ELSE LET err == checkKeyNotChanged(path)
       IN IF err # NoErr THEN [err |-> err, decoded |-> FALSE]
          ELSE LET u == Unmarshal(raw)
               IN IF u.err # NoErr
                    THEN [err |-> "invalid format for parameters.assign", decoded |-> TRUE]
                  ELSE IF "value" \notin DOMAIN u.m
                    THEN [err |-> "spec.parameters.assign must have a value field",
                          decoded |-> TRUE]
                  ELSE [err |-> validateObjectAssignedToList(path, u.m["value"]),
                        decoded |-> TRUE]

(***************************************************************************)
(* Location expressions and the path parser (parser.Parse).  A location is *)
(* the sequence of its textual segments: .<identifier>, [] and             *)
(* [<keyField>: <keyValue>]; anything else is a segment of no form.        *)
(***************************************************************************)
MaxLocLen == 2

Field(id) == [form |-> "field", id |-> id]
GlobSeg == [form |-> "glob"]
Keyed(key, val) == [form |-> "keyed", key |-> key, val |-> val]
Junk == [form |-> "junk"]

Segs ==
  {Field(id) : id \in FieldNames \cup {""}} \cup {GlobSeg, Junk}
    \cup {Keyed(key, val) : key \in {"name", ""}, val \in KeyValues}

Locations == SeqsUpTo(Segs, MaxLocLen)

SegOk(seg) ==
  CASE seg.form = "field" -> seg.id # ""
    [] seg.form = "glob" -> TRUE
    [] seg.form = "keyed" -> seg.key # ""
    [] OTHER -> FALSE

SegNode(seg) ==
  CASE seg.form = "field" -> Object(seg.id)
    [] seg.form = "glob" -> List("", NilStr, TRUE)
    [] OTHER -> List(seg.key, Ptr(seg.val), FALSE)

Parse(location) ==
  IF Len(location) = 0 \/ \E i \in 1..Len(location) : ~SegOk(location[i])
    THEN [err |-> "parse error", nodes |-> <<>>]
  ELSE [err |-> NoErr, nodes |-> [i \in 1..Len(location) |-> SegNode(location[i])]]

IsValidAssign(assign) ==
  LET parsed == Parse(assign.Spec.Location)
  IN IF parsed.err # NoErr
       THEN [err |-> "invalid location format", decoded |-> FALSE]
     ELSE validate(parsed.nodes, assign.Spec.Raw)

(***************************************************************************)
(* Assign declarations handed to the constructor                           *)
(***************************************************************************)
LocField == <<Field("name")>>
LocList == <<Field("containers"), Keyed("name", "a")>>
LocMeta == <<Field("metadata"), Field("name")>>
LocKeyChange == <<Field("containers"), Keyed("name", "a"), Field("name")>>
LocBad == <<Junk>>

RecordLocations == {LocField, LocList, LocMeta, LocKeyChange, LocBad}

RawMatch == JMap("value" :> JMap("name" :> JStr("a")))
RawMismatch == JMap("value" :> JMap("name" :> JStr("b")))

RecordRaws == {RawMatch, RawMismatch, Garbage}

ApplyToApps == [Groups |-> <<"apps">>, Kinds |-> <<"Deployment">>, Versions |-> <<"v1">>]

ApplyTos == {<<>>, <<ApplyToApps>>}

AssignNames == {"a1", "a2"}

AssignObjs ==
  {[Name |-> n, Spec |-> [Location |-> l, Raw |-> r, ApplyTo |-> at]] :
     n \in AssignNames, l \in RecordLocations, r \in RecordRaws, at \in ApplyTos}

\* (*Assign).DeepCopy: a new object equal by value, sharing nothing
AssignDeepCopy(assign) ==
  [Name |-> assign.Name,
   Spec |-> [Location |-> [i \in 1..Len(assign.Spec.Location) |-> assign.Spec.Location[i]],
             Raw |-> assign.Spec.Raw,
             ApplyTo |-> [i \in 1..Len(assign.Spec.ApplyTo) |-> assign.Spec.ApplyTo[i]]]]

MakeID(assign) == [Kind |-> "Assign", Name |-> assign.Name]

\* the binding values, each list a fresh slice filled element by element
applyToToBindings(applyTos) ==
  [i \in 1..Len(applyTos) |->
     [Groups |-> [j \in 1..Len(applyTos[i].Groups) |-> applyTos[i].Groups[j]],
      Kinds |-> [j \in 1..Len(applyTos[i].Kinds) |-> applyTos[i].Kinds[j]],
      Versions |-> [j \in 1..Len(applyTos[i].Versions) |-> applyTos[i].Versions[j]]]]

(***************************************************************************)
(* State.  Pointers are addresses: an Assign object lives in "assigns"     *)
(* ("in", "in2" are the caller's objects, the others belong to records), a *)
(* path node in "nodeHeap", the backing array of a []string in "arrHeap".  *)
(* An AssignMutator holds its id by value, a pointer to its Assign, the    *)
(* slice of its node pointers and the slice of its bindings.               *)
(***************************************************************************)
VARIABLES vcall, assigns, recs, nodeHeap, arrHeap, docs, ret

vars == <<vcall, assigns, recs, nodeHeap, arrHeap, docs, ret>>

Workers == {"w1", "w2"}
Dims == {"Groups", "Kinds", "Versions"}
OtherKind == "AssignMetadata"
MaxListLen == 2

ElemA == JMap("name" :> JStr("a") @@ "image" :> JStr("b"))
ElemB == JMap("name" :> JStr("b"))
DocElems == {ElemA, ElemB}

Docs ==
  {JMap(EmptyMap)}
    \cup {JMap("containers" :> JList(e)) : e \in SeqsUpTo(DocElems, MaxListLen)}

PathOf(r) == [i \in 1..Len(recs[r].path) |-> nodeHeap[recs[r].path[i]]]

BindingsOf(r) ==
  [i \in 1..Len(recs[r].bindings) |->
     [d \in Dims |-> arrHeap[recs[r].bindings[i][d]]]]

SpecOf(r) == assigns[recs[r].assign].Spec

\* everything observable of a record, by value
View(r) ==
  [id |-> recs[r].id, path |-> PathOf(r), bindings |-> BindingsOf(r), spec |-> SpecOf(r)]

(***************************************************************************)
(* Constructor and methods                                                 *)
(***************************************************************************)
NewRecord(r, assignAddr, assign, nodes) ==
  LET bs == applyToToBindings(assign.Spec.ApplyTo)
  IN [err |-> NoErr,
      rec |-> [id |-> MakeID(assign),
               assign |-> assignAddr,
               path |-> [i \in 1..Len(nodes) |-> <<r, i>>],
               bindings |-> [i \in 1..Len(bs) |-> [d \in Dims |-> <<r, i, d>>]]],
      assignObj |-> AssignDeepCopy(assign),
      nodes |-> [a \in {<<r, i>> : i \in 1..Len(nodes)} |-> nodes[a[2]]],
      arrays |-> [a \in {<<r, i, d>> : i \in 1..Len(bs), d \in Dims} |-> bs[a[2]][a[3]]]]

\* keeps the caller's pointer instead of a copy of the object
MutatorForAssign_KeepPointer(in, r) ==
  LET assign == assigns[in]
      parsed == Parse(assign.Spec.Location)
  IN IF parsed.err # NoErr
       THEN [err |-> "Failed to parse the location specified"]
     ELSE NewRecord(r, in, assign, parsed.nodes)

\* MutatorForAssign(assign) called with the pointer "in"; the record built is r,
\* its own Assign copy is stored at address r
MutatorForAssign(in, r) ==
  LET assign == assigns[in]
      parsed == Parse(assign.Spec.Location)
  IN IF parsed.err # NoErr
       THEN [err |-> "Failed to parse the location specified"]
     ELSE NewRecord(r, r, assign, parsed.nodes)

\* m.DeepCopy(): the Assign is deep-copied; copy() copies the node pointers and
\* the binding structs, so nodes and backing arrays stay those of m
DeepCopy(m, c) ==
  [rec |-> [id |-> recs[m].id,
            assign |-> c,
            path |-> [i \in 1..Len(recs[m].path) |-> recs[m].path[i]],
            bindings |-> [i \in 1..Len(recs[m].bindings) |-> recs[m].bindings[i]]],
   assignObj |-> AssignDeepCopy(assigns[recs[m].assign])]

\* the method's decision on what the applicability predicate returned
Matches_IgnoreErr(matches, err) == matches

Matches(matches, err) == IF err # NoErr THEN FALSE ELSE matches

\* unmarshalValue(m.assign.Spec.Parameters.Assign.Raw)
unmarshalValue(raw) ==
  LET u == Unmarshal(raw)
  IN IF u.err # NoErr THEN [err |-> "Failed to unmarshal value", val |-> JNull]
     ELSE [err |-> NoErr, val |-> MapIndex(u.m, "value")]

Value(m) == unmarshalValue(SpecOf(m).Raw)

\* forgets the comparison of the declaration spec
HasDiff_NoSpec(m, mutator) ==
  IF mutator = OtherKind THEN TRUE
  ELSE IF recs[mutator].id # recs[m].id THEN TRUE
  ELSE IF PathOf(mutator) # PathOf(m) THEN TRUE
  ELSE IF BindingsOf(mutator) # BindingsOf(m) THEN TRUE
  ELSE FALSE

\* cmp.Equal follows the pointers and compares by value
HasDiff(m, mutator) ==
  IF mutator = OtherKind THEN TRUE
  ELSE IF recs[mutator].id # recs[m].id THEN TRUE
  ELSE IF PathOf(mutator) # PathOf(m) THEN TRUE
  ELSE IF BindingsOf(mutator) # BindingsOf(m) THEN TRUE
  ELSE IF SpecOf(mutator) # SpecOf(m) THEN TRUE
  ELSE FALSE

(***************************************************************************)
(* The apply engine behind Mutate(m, obj)                                  *)
(***************************************************************************)
Put(f, key, v) == (key :> v) @@ f

ReplaceAt(e, j, v) == [e EXCEPT ![j] = v]

Min(S) == CHOOSE x \in S : \A y \in S : x <= y

KeyMatches(elem, listNode) ==
  /\ elem.k = "map"
  /\ listNode.KeyValue # NilStr
  /\ StrEqIface(listNode.KeyValue[1], MapIndex(elem.f, listNode.KeyField))

RECURSIVE mutateInternal(_, _, _, _)
mutateInternal(cur, path, i, vp) ==
  LET node == path[i]
      last == (i = Len(path))
      fail(msg) == [err |-> msg, val |-> cur]
  IN IF node.type = ObjectNode
       THEN IF cur.k # "map" THEN fail("type mismatch: not a map")
            ELSE IF last
              THEN IF vp.err # NoErr THEN fail(vp.err)
                   ELSE [err |-> NoErr, val |-> JMap(Put(cur.f, node.Reference, vp.val))]
            ELSE LET present == node.Reference \in DOMAIN cur.f
                     child == IF present THEN cur.f[node.Reference]
                              ELSE IF path[i + 1].type = ListNode THEN JList(<<>>)
                              ELSE JMap(EmptyMap)
                     r == mutateInternal(child, path, i + 1, vp)
                 IN IF r.err # NoErr /\ ~present THEN fail(r.err)
                    ELSE [err |-> r.err, val |-> JMap(Put(cur.f, node.Reference, r.val))]
     ELSE IF cur.k # "list" THEN fail("type mismatch: not a list")
     ELSE IF node.Glob
       THEN IF last THEN fail("last path entry can not be globbed")
            ELSE LET rs == [j \in 1..Len(cur.e) |-> mutateInternal(cur.e[j], path, i + 1, vp)]
                 IN [err |-> IF \E j \in 1..Len(cur.e) : rs[j].err # NoErr
                               THEN "glob: element errors" ELSE NoErr,
                     val |-> JList([j \in 1..Len(cur.e) |-> rs[j].val])]
     ELSE LET hits == {j \in 1..Len(cur.e) : KeyMatches(cur.e[j], node)}
          IN IF hits # {}
               THEN IF last
                      THEN IF vp.err # NoErr THEN fail(vp.err)
                           ELSE [err |-> NoErr, val |-> JList(ReplaceAt(cur.e, Min(hits), vp.val))]
                    ELSE LET r == mutateInternal(cur.e[Min(hits)], path, i + 1, vp)
                         IN [err |-> r.err, val |-> JList(ReplaceAt(cur.e, Min(hits), r.val))]
             ELSE IF last
               THEN IF vp.err # NoErr THEN fail(vp.err)
                    ELSE [err |-> NoErr, val |-> JList(Append(cur.e, vp.val))]
             ELSE fail("list element not found")

Mutate(m, obj) ==
  IF Len(recs[m].path) = 0 THEN [err |-> "empty path", val |-> obj]
  ELSE mutateInternal(obj, PathOf(m), 1, Value(m))

(***************************************************************************)
(* Initial states                                                          *)
(***************************************************************************)
NoCall == [op |-> "none"]

Doc1 == JMap("containers" :> JList(<<ElemA>>))

DefaultAssign ==
  [Name |-> "a1", Spec |-> [Location |-> LocList, Raw |-> RawMatch, ApplyTo |-> <<ApplyToApps>>]]

InitCommon ==
  /\ vcall = NoCall
  /\ recs = <<>>
  /\ nodeHeap = <<>>
  /\ arrHeap = <<>>
  /\ ret = NoCall

Init ==
  /\ InitCommon
  /\ assigns \in {("in" :> a) : a \in AssignObjs}
  /\ docs = [w \in Workers |-> Doc1]

InitValidate ==
  /\ InitCommon
  /\ assigns = ("in" :> DefaultAssign)
  /\ docs = [w \in Workers |-> Doc1]

InitApply ==
  /\ InitCommon
  /\ assigns \in {("in" :> a) : a \in AssignObjs}
  /\ docs \in [Workers -> Docs]

(***************************************************************************)
(* Validation calls                                                        *)
(***************************************************************************)
recVars == <<assigns, recs, nodeHeap, arrHeap, docs, ret>>

ValidateCall ==
  /\ vcall = NoCall
  /\ \E p \in Paths, raw \in Raws :
       vcall' = [op |-> "validate", path |-> p, raw |-> raw, res |-> validate(p, raw)]
  /\ UNCHANGED recVars

IsValidAssignCall ==
  /\ vcall = NoCall
  /\ \E loc \in Locations, raw \in Raws :
       LET assign == [Name |-> "a1", Spec |-> [Location |-> loc, Raw |-> raw, ApplyTo |-> <<>>]]
           parsed == Parse(loc)
       IN vcall' = [op |-> IF parsed.err = NoErr THEN "IsValidAssign" ELSE "IsValidAssign/unparsed",
                    path |-> parsed.nodes, raw |-> raw, res |-> IsValidAssign(assign)]
  /\ UNCHANGED recVars

(***************************************************************************)
(* Record calls                                                            *)
(***************************************************************************)
InOf(r) == IF r = "o" THEN "in2" ELSE "in"

MutatorForAssignCall(r) ==
  /\ r \notin DOMAIN recs
  /\ InOf(r) \in DOMAIN assigns
  /\ LET res == MutatorForAssign(InOf(r), r)
     IN IF res.err # NoErr
          THEN /\ ret' = [op |-> "MutatorForAssign", rec |-> r, err |-> res.err]
               /\ UNCHANGED <<assigns, recs, nodeHeap, arrHeap>>
        ELSE /\ recs' = (r :> res.rec) @@ recs
             /\ assigns' = assigns @@ (r :> res.assignObj)
             /\ nodeHeap' = res.nodes @@ nodeHeap
             /\ arrHeap' = res.arrays @@ arrHeap
             /\ ret' = [op |-> "MutatorForAssign", rec |-> r, err |-> NoErr]
  /\ UNCHANGED <<vcall, docs>>

\* the caller prepares a second declaration
NewAssign ==
  /\ "in2" \notin DOMAIN assigns
  /\ \E a \in AssignObjs : assigns' = assigns @@ ("in2" :> a)
  /\ ret' = [op |-> "NewAssign"]
  /\ UNCHANGED <<vcall, recs, nodeHeap, arrHeap, docs>>

CallerWrites(a) ==
  ({[a EXCEPT !.Spec.Location = LocMeta], [a EXCEPT !.Spec.Raw = Garbage]}
     \cup (IF Len(a.Spec.ApplyTo) > 0
             THEN {[a EXCEPT !.Spec.ApplyTo[1].Groups[1] = "core"]} ELSE {})) \ {a}

\* the caller writes to the Assign object it passed to the constructor
CallerWrite ==
  /\ "m" \in DOMAIN recs
  /\ \E a \in CallerWrites(assigns["in"]) : assigns' = [assigns EXCEPT !["in"] = a]
  /\ ret' = [op |-> "CallerWrite"]
  /\ UNCHANGED <<vcall, recs, nodeHeap, arrHeap, docs>>

DeepCopyCall ==
  /\ "m" \in DOMAIN recs
  /\ "c" \notin DOMAIN recs
  /\ LET res == DeepCopy("m", "c")
     IN /\ recs' = ("c" :> res.rec) @@ recs
        /\ assigns' = assigns @@ ("c" :> res.assignObj)
  /\ ret' = [op |-> "DeepCopy"]
  /\ UNCHANGED <<vcall, nodeHeap, arrHeap, docs>>

NodeWrites(n) ==
  (IF n.type = ObjectNode THEN {[n EXCEPT !.Reference = "metadata"]}
   ELSE {[n EXCEPT !.KeyField = "id"], [n EXCEPT !.KeyValue = Ptr("b")]}) \ {n}

\* a write through the copy to one of its path nodes
WriteCopyNode ==
  /\ "c" \in DOMAIN recs
  /\ \E i \in 1..Len(recs["c"].path) :
       \E n \in NodeWrites(nodeHeap[recs["c"].path[i]]) :
         nodeHeap' = [nodeHeap EXCEPT ![recs["c"].path[i]] = n]
  /\ ret' = [op |-> "WriteCopyNode"]
  /\ UNCHANGED <<vcall, assigns, recs, arrHeap, docs>>

\* a write through the copy to an element of a binding's list
WriteCopyBinding ==
  /\ "c" \in DOMAIN recs
  /\ \E i \in 1..Len(recs["c"].bindings), d \in Dims :
       /\ arrHeap[recs["c"].bindings[i][d]][1] # "x"
       /\ arrHeap' = [arrHeap EXCEPT ![recs["c"].bindings[i][d]][1] = "x"]
  /\ ret' = [op |-> "WriteCopyBinding"]
  /\ UNCHANGED <<vcall, assigns, recs, nodeHeap, docs>>

\* a write through the copy to its declaration spec
WriteCopySpec ==
  /\ "c" \in DOMAIN recs
  /\ assigns[recs["c"].assign].Spec.Raw # Garbage
  /\ assigns' = [assigns EXCEPT ![recs["c"].assign].Spec.Raw = Garbage]
  /\ ret' = [op |-> "WriteCopySpec"]
  /\ UNCHANGED <<vcall, recs, nodeHeap, arrHeap, docs>>

\* m.Matches(obj, ns): the predicate's return values are any pair
MatchesCall ==
  /\ "m" \in DOMAIN recs
  /\ \E matches \in BOOLEAN, err \in {NoErr, "match error"} :
       ret' = [op |-> "Matches", matches |-> matches, err |-> err,
               res |-> Matches(matches, err)]
  /\ UNCHANGED <<vcall, assigns, recs, nodeHeap, arrHeap, docs>>

ListLen(doc) ==
  IF "containers" \in DOMAIN doc.f /\ doc.f["containers"].k = "list"
    THEN Len(doc.f["containers"].e) ELSE 0

\* m.Mutate(obj) by worker w on its own document
MutateCall ==
  /\ "m" \in DOMAIN recs
  /\ \E w \in Workers :
       /\ ListLen(docs[w]) <= MaxListLen
       /\ LET res == Mutate("m", docs[w])
          IN /\ docs' = [docs EXCEPT ![w] = res.val]
             /\ ret' = [op |-> "Mutate", w |-> w, err |-> res.err]
  /\ UNCHANGED <<vcall, assigns, recs, nodeHeap, arrHeap>>

IDCall ==
  /\ "m" \in DOMAIN recs
  /\ ret' = [op |-> "ID", res |-> recs["m"].id]
  /\ UNCHANGED <<vcall, assigns, recs, nodeHeap, arrHeap, docs>>

ValueCall ==
  /\ "m" \in DOMAIN recs
  /\ ret' = [op |-> "Value", res |-> Value("m")]
  /\ UNCHANGED <<vcall, assigns, recs, nodeHeap, arrHeap, docs>>

SchemaBindingsCall ==
  /\ "m" \in DOMAIN recs
  /\ ret' = [op |-> "SchemaBindings", res |-> recs["m"].bindings]
  /\ UNCHANGED <<vcall, assigns, recs, nodeHeap, arrHeap, docs>>

PathCall ==
  /\ "m" \in DOMAIN recs
  /\ ret' = [op |-> "Path", res |-> recs["m"].path]
  /\ UNCHANGED <<vcall, assigns, recs, nodeHeap, arrHeap, docs>>

\* a.HasDiff(b)
HasDiffCall ==
  /\ \E a \in DOMAIN recs, b \in DOMAIN recs \cup {OtherKind} :
       ret' = [op |-> "HasDiff", a |-> a, b |-> b, res |-> HasDiff(a, b)]
  /\ UNCHANGED <<vcall, assigns, recs, nodeHeap, arrHeap, docs>>

(***************************************************************************)
(* Specifications                                                          *)
(***************************************************************************)
NextValidate == ValidateCall \/ IsValidAssignCall

SpecValidate == InitValidate /\ [][NextValidate]_vars

Next ==
  \/ MutatorForAssignCall("m")
  \/ CallerWrite
  \/ DeepCopyCall
  \/ MatchesCall
  \/ MutateCall
  \/ IDCall
  \/ ValueCall
  \/ SchemaBindingsCall
  \/ PathCall
  \/ HasDiffCall

Spec == Init /\ [][Next]_vars

NextDiff ==
  \/ MutatorForAssignCall("m")
  \/ NewAssign
  \/ MutatorForAssignCall("o")
  \/ DeepCopyCall
  \/ HasDiffCall

SpecDiff == Init /\ [][NextDiff]_vars

NextCopy ==
  \/ MutatorForAssignCall("m")
  \/ DeepCopyCall
  \/ WriteCopyNode
  \/ WriteCopyBinding
  \/ WriteCopySpec
  \/ HasDiffCall

SpecCopy == Init /\ [][NextCopy]_vars

NextApply == MutatorForAssignCall("m") \/ MutateCall

SpecApply == InitApply /\ [][NextApply]_vars

(***************************************************************************)
(* Properties of the validator (SpecValidate)                              *)
(***************************************************************************)
Called == vcall.op \in {"validate", "IsValidAssign"}

Rejected == vcall.res.err # NoErr

LastNode == vcall.path[Len(vcall.path)]

\* C1: a parsed path whose first node is Object "metadata" is rejected,
\* whatever the payload and whatever the remaining nodes.
C1_MetadataRootRejected ==
  (Called /\ Len(vcall.path) > 0 /\ vcall.path[1] = Object("metadata")) => Rejected

C1_Witness ==
  /\ vcall.op = "IsValidAssign"
  /\ vcall.path = <<Object("metadata"), Object("name")>>
  /\ vcall.raw = RawMatch
  /\ vcall.res.err = "assign can't change metadata"

EndsInKeyFieldOfList ==
  /\ Len(vcall.path) >= 2
  /\ vcall.path[Len(vcall.path) - 1].type = ListNode
  /\ LastNode.type = ObjectNode
  /\ LastNode.Reference = vcall.path[Len(vcall.path) - 1].KeyField

\* C2: a path ending in List(keyField K), Object(reference K) is rejected
\* whatever the payload, and the payload is not decoded before the rejection.
C2_KeyFieldChangeRejected ==
  (Called /\ EndsInKeyFieldOfList) => (Rejected /\ ~vcall.res.decoded)

C2_Witness ==
  /\ vcall.op = "validate"
  /\ vcall.path = <<Object("containers"), List("name", NilStr, TRUE), Object("name")>>
  /\ vcall.raw = RawMatch
  /\ vcall.res.err = "invalid path format: changing the item key is not allowed"

EndsInKeyedList ==
  /\ Len(vcall.path) >= 1
  /\ LastNode.type = ListNode
  /\ ~LastNode.Glob
  /\ LastNode.KeyValue # NilStr

HasValue == vcall.raw.k = "map" /\ "value" \in DOMAIN vcall.raw.f

PayloadKey == MapIndex(vcall.raw.f["value"].f, LastNode.KeyField)

Rules1To4 ==
  /\ vcall.path[1] # Object("metadata")
  /\ Len(vcall.path) = 1 \/ vcall.path[Len(vcall.path) - 1].type # ListNode

\* C3: for a path ending in List(glob=false, K, V) and a payload
\* {"value": {K: V2, ...}}: rejected when V2 differs from V (K absent or V2 not a
\* string included); accepted when V2 equals V, the first node is not Object
\* "metadata" and the node before the last is not a List.
C3_ListAppendKeyConsistency ==
  (Called /\ EndsInKeyedList /\ HasValue /\ vcall.raw.f["value"].k = "map") =>
     /\ ~StrEqIface(LastNode.KeyValue[1], PayloadKey) => Rejected
     /\ (StrEqIface(LastNode.KeyValue[1], PayloadKey) /\ Rules1To4) => ~Rejected

C3_Witness ==
  /\ vcall.op = "IsValidAssign"
  /\ vcall.path = <<Object("containers"), List("name", Ptr("a"), FALSE)>>
  /\ vcall.raw = JMap("value" :> ElemA)
  /\ vcall.res = [err |-> NoErr, decoded |-> TRUE]

ListRuleErrors ==
  {"can't append to a globbed list", "invalid key value for a non globbed object",
   "only full objects can be appended to lists",
   "adding object to list with different key"}

\* C9: with a List as last node, a globbed node is rejected, a node without
\* keyValue is rejected, and a payload whose value is no structured object is
\* rejected, whatever the other nodes; with an Object as last node the
\* list-append rule rejects nothing.
C9_TerminalListRules ==
  (Called /\ Len(vcall.path) >= 1) =>
     /\ (LastNode.type = ListNode /\ LastNode.Glob) => Rejected
     /\ (LastNode.type = ListNode /\ LastNode.KeyValue = NilStr) => Rejected
     /\ (LastNode.type = ListNode /\ HasValue /\ vcall.raw.f["value"].k # "map") => Rejected
     /\ LastNode.type = ObjectNode => vcall.res.err \notin ListRuleErrors

C9_Witness ==
  /\ vcall.op = "validate"
  /\ vcall.path = <<Object("containers"), List("name", Ptr("a"), FALSE)>>
  /\ vcall.raw = JMap("value" :> JStr("a"))
  /\ vcall.res.err = "only full objects can be appended to lists"

(***************************************************************************)
(* Properties of the record                                                *)
(***************************************************************************)
Built(r) == r \in DOMAIN recs

\* C4: a record exists only for a declaration that IsValidAssign accepts.
C4_RecordOnlyForValidAssign ==
  Built("m") => IsValidAssign(assigns[recs["m"].assign]).err = NoErr

CopyWrites == {"WriteCopyNode", "WriteCopyBinding", "WriteCopySpec"}

\* C5: a write through the copy (to a path node, to an element of a binding's
\* list, to its declaration spec) leaves every observable of the original
\* unchanged.
C5_DeepCopyIndependent ==
  [][ret'.op \in CopyWrites => View("m")' = View("m")]_vars

\* C6: Matches returns false whenever the predicate returned an error, the
\* predicate's boolean otherwise, and writes neither the record nor a document.
C6_MatchesFailClosed ==
  [][ret'.op = "Matches" =>
       /\ ret'.err # NoErr => ret'.res = FALSE
       /\ ret'.err = NoErr => ret'.res = ret'.matches
       /\ UNCHANGED <<assigns, recs, nodeHeap, arrHeap, docs>>]_vars

C6_Witness ==
  /\ ret.op = "Matches"
  /\ ret.err # NoErr
  /\ ret.matches
  /\ ~ret.res

SameByValue(a, b) ==
  /\ recs[a].id = recs[b].id
  /\ PathOf(a) = PathOf(b)
  /\ BindingsOf(a) = BindingsOf(b)
  /\ SpecOf(a) = SpecOf(b)

\* C7: a.HasDiff(b) is false exactly when identity, path, bindings and spec are
\* equal by value, true for a mutator of another kind; it is symmetric, and
\* false between a record and its DeepCopy.
C7_HasDiffIsValueInequality ==
  ret.op = "HasDiff" =>
     /\ ret.b = OtherKind => ret.res
     /\ ret.b # OtherKind => (~ret.res <=> SameByValue(ret.a, ret.b))
     /\ ret.b # OtherKind => HasDiff(ret.b, ret.a) = ret.res
     /\ (ret.a = "m" /\ ret.b = "c") => ~ret.res

C7_Witness ==
  /\ ret.op = "HasDiff"
  /\ ret.a = "m"
  /\ ret.b = "o"
  /\ ret.res
  /\ recs["m"].id = recs["o"].id
  /\ PathOf("m") = PathOf("o")
  /\ BindingsOf("m") = BindingsOf("o")

\* C8: once built, the record's identity, path, bindings and spec never
\* change, whatever calls the workers make and whatever the caller writes to the
\* Assign object it passed to the constructor.
C8_RecordImmutable ==
  [][Built("m") => View("m")' = View("m")]_vars

C8_Witness ==
  /\ Built("m")
  /\ Built("c")
  /\ assigns["in"].Spec # SpecOf("m")
  /\ ret.op = "Mutate"
  /\ docs["w1"] # docs["w2"]

(***************************************************************************)
(* Mutate on a path ending in a keyed List node                            *)
(***************************************************************************)
TerminalKeyedList(path) ==
  /\ Len(path) = 2
  /\ path[1].type = ObjectNode
  /\ path[2].type = ListNode
  /\ ~path[2].Glob
  /\ path[2].KeyValue # NilStr

HasTargetList(doc, path) ==
  /\ path[1].Reference \in DOMAIN doc.f
  /\ doc.f[path[1].Reference].k = "list"

TargetList(doc, path) == doc.f[path[1].Reference].e

KeyedListMutated(old, new, node, value) ==
  LET hits == {j \in 1..Len(old) : KeyMatches(old[j], node)}
  IN IF hits # {}
       THEN /\ Len(new) = Len(old)
            /\ new[Min(hits)] = value
            /\ \A j \in 1..Len(old) : j # Min(hits) => new[j] = old[j]
     ELSE /\ Len(new) = Len(old) + 1
          /\ new[Len(new)] = value
          /\ \A j \in 1..Len(old) : new[j] = old[j]

MutateStepOk ==
  LET path == PathOf("m")
      w == ret'.w
  IN (TerminalKeyedList(path) /\ HasTargetList(docs[w], path)) =>
       /\ HasTargetList(docs'[w], path)
       /\ KeyedListMutated(TargetList(docs[w], path), TargetList(docs'[w], path),
                           path[2], Value("m").val)
       /\ Len(TargetList(Mutate("m", docs'[w]).val, path)) = Len(TargetList(docs'[w], path))

\* C10: Mutate with a path ending in a keyed, non-glob List node replaces the
\* first element whose key matches (length unchanged) or, when none matches,
\* appends exactly one element (length plus one); the other elements are kept,
\* and a second application leaves the length unchanged.
C10_KeyedListMutate ==
  [][ret'.op = "Mutate" => MutateStepOk]_vars

\* the same, for the records whose declaration IsValidAssign accepts
KeyedListMutateOfValidAssign ==
  [][(ret'.op = "Mutate" /\ IsValidAssign(assigns[recs["m"].assign]).err = NoErr)
       => MutateStepOk]_vars
====
